---- MODULE Spec2Model ----
(***************************************************************************)
(* news-flash (src/main.py): the GET /summaries handler, its single-slot   *)
(* TTL cache, and the three wrappers around the external services          *)
(* (news-listing API, article pages, generative-text API).                 *)
(*                                                                         *)
(* Granularity: one action per source statement that reads or writes the   *)
(* shared cache dict or performs an outbound call; a statement with a call *)
(* beside its access to the cache is two actions (line 103: read, then     *)
(* jsonify; line 138: time.time(), then store; lines 139-140: store, then  *)
(* jsonify).  Flask's app.run serves requests on threads, and the          *)
(* interpreter switches threads between statements and after a call        *)
(* returns, so handlers of several requests interleave there.              *)
(*                                                                         *)
(* Encoding of Python values:                                              *)
(*   None is <<>>, a present value v is <<v>> (Some(v));                   *)
(*   a dict is a function whose DOMAIN is its key set;                     *)
(*   a list is a sequence;                                                 *)
(*   text that the code computes on (page text, model reply, content,      *)
(*   summary) is the sequence of the Unicode code points of its            *)
(*   characters; other strings (titles, URLs, messages) are strings.       *)
(***************************************************************************)
EXTENDS Integers, Sequences, FiniteSets, TLC

\* ---------------------------------------------------------------- bounds
NumThreads == 2     \* request-handling threads of the one server process
MaxRequests == 3    \* requests that arrive in one behaviour
MaxTicks == 2       \* clock advances in one behaviour
MaxArticles == 2    \* longest article list the news API returns
StartTime == 100000 \* time.time() when the process starts

\* ------------------------------------------------------ program constants
CACHE_TTL == 40000  \* main.py:13
FiveMinutes == 300  \* main.py:13, the comment "seconds (5 minutes)"

\* --------------------------------------------------------- Python values
None == <<>>
Some(v) == <<v>>

\* dict.get(key, default)
Get(d, k, default) == IF k \in DOMAIN d THEN d[k] ELSE default

\* truth value of an optional string: None and "" are falsy
Truthy(v) == v # None /\ v # Some("")

\* characters, as code points
Tab == 9
Newline == 10
CarriageReturn == 13
Space == 32
NoBreakSpace == 160
Ch_a == 97
Ch_b == 98
Ch_c == 99
Ch_X == 88
Ch_Y == 89

\* the characters str.strip() removes (str.isspace): U+0009..U+000D,
\* U+001C..U+001F, U+0020, U+0085, U+00A0, U+1680, U+2000..U+200A, U+2028,
\* U+2029, U+202F, U+205F, U+3000
Whitespace ==
  (9..13) \cup (28..32) \cup {133, 160, 5760} \cup (8192..8202)
  \cup {8232, 8233, 8239, 8287, 12288}

\* the characters str.splitlines() breaks on: \n, \v, \f, \r, U+001C..U+001E,
\* U+0085, U+2028, U+2029
LineBreaks == (10..13) \cup (28..30) \cup {133, 8232, 8233}

IsWhite(c) == c \in Whitespace

\* str.strip()
RECURSIVE LStrip(_)
LStrip(s) == IF s # <<>> /\ IsWhite(Head(s)) THEN LStrip(Tail(s)) ELSE s

RECURSIVE RStrip(_)
RStrip(s) ==
  IF s # <<>> /\ IsWhite(s[Len(s)]) THEN RStrip(SubSeq(s, 1, Len(s) - 1)) ELSE s

Strip(s) == RStrip(LStrip(s))

\* str.splitlines(): a line ends at a line break, \r\n being one break; no
\* empty last line after a final break
RECURSIVE SplitLinesAcc(_, _, _)
SplitLinesAcc(s, cur, acc) ==
  IF s = <<>> THEN (IF cur = <<>> THEN acc ELSE Append(acc, cur))
  ELSE IF Len(s) >= 2 /\ s[1] = CarriageReturn /\ s[2] = Newline
       THEN SplitLinesAcc(Tail(Tail(s)), <<>>, Append(acc, cur))
  ELSE IF Head(s) \in LineBreaks
       THEN SplitLinesAcc(Tail(s), <<>>, Append(acc, cur))
  ELSE SplitLinesAcc(Tail(s), Append(cur, Head(s)), acc)

SplitLines(s) == SplitLinesAcc(s, <<>>, <<>>)

\* str.split("  ")
RECURSIVE SplitDoubleAcc(_, _, _)
SplitDoubleAcc(s, cur, acc) ==
  IF s = <<>> THEN Append(acc, cur)
  ELSE IF Len(s) >= 2 /\ s[1] = Space /\ s[2] = Space
       THEN SplitDoubleAcc(Tail(Tail(s)), <<>>, Append(acc, cur))
  ELSE SplitDoubleAcc(Tail(s), Append(cur, Head(s)), acc)

SplitDouble(s) == SplitDoubleAcc(s, <<>>, <<>>)

\* the stripped, non-empty chunks of the stripped lines, in order
RECURSIVE ChunksOf(_)
ChunksOf(lines) ==
  IF lines = <<>> THEN <<>>
  ELSE LET parts == SplitDouble(Strip(Head(lines)))
           stripped == [i \in 1..Len(parts) |-> Strip(parts[i])]
       IN SelectSeq(stripped, LAMBDA c : c # <<>>) \o ChunksOf(Tail(lines))

\* ' '.join(chunks)
RECURSIVE JoinSpace(_)
JoinSpace(chunks) ==
  IF chunks = <<>> THEN <<>>
  ELSE IF Len(chunks) = 1 THEN chunks[1]
  ELSE chunks[1] \o <<Space>> \o JoinSpace(Tail(chunks))

\* --------------------------------------------------- the three wrappers
\* NewsSummarizer.fetch_news.  resp is what requests.get / raise_for_status /
\* response.json() produce: kind "RequestException" (network or HTTP error),
\* "object" (the body is a JSON object; hasData tells whether it has a
\* 'data' key), or "array" (the body is valid JSON but no object, so
\* data.get raises AttributeError, which the except clause does not catch).
fetch_news(resp) ==
  IF resp.kind = "RequestException" THEN [raised |-> FALSE, value |-> Some(<<>>)]
  ELSE IF resp.kind = "object"
       THEN [raised |-> FALSE,
             value |-> IF resp.hasData THEN resp.data ELSE Some(<<>>)]
  ELSE [raised |-> TRUE, value |-> None]

\* NewsSummarizer.extract_content.  page.raised: requests.get,
\* raise_for_status or the parser raised; page.text: soup.get_text().
extract_content(page) ==
  IF page.raised THEN <<>> ELSE JoinSpace(ChunksOf(SplitLines(page.text)))

\* NewsSummarizer.generate_summary.  reply.raised: the client call raised;
\* reply.text: response.text.
generate_summary(reply) ==
  IF reply.raised THEN <<>> ELSE Strip(reply.text)

\* line 27, reached from line 105: genai.Client(api_key=os.getenv(...)) raises
\* ValueError when no key is configured; no try encloses the call
ClientRaises(key) == key = None

\* an item of the 'data' list that is no JSON object (the number 7): it has
\* no attribute get
JsonNumber == [json |-> "number"]
IsDict(item) == "json" \notin DOMAIN item

Threads == 1..NumThreads

VARIABLES
  environ,   \* os.environ: [GEMINI_API_KEY], None when the variable is not set
  clock,     \* time.time()
  ticks,     \* clock advances so far
  arrived,   \* requests that have arrived so far
  cache,     \* _summaries_cache: [timestamp, data]
  writer,    \* history: the request whose store wrote each field of cache
  lastStore, \* history: request, time and list of the last completed store
  pc,        \* per thread: position of its handler
  rid,       \* per thread: number of the request it handles
  now,       \* per thread: local now
  held,      \* per thread: the list line 103 read, the argument of jsonify
  articles,  \* per thread: local articles
  results,   \* per thread: local results
  calls,     \* per thread, history: outbound calls of the request, in order
  seen,      \* per thread, history: the cache as line 102 read it, and the
             \* last completed store at that moment
  tstore,    \* per thread: the value time.time() returned at line 138
  resp       \* per thread: the HTTP response of the request

vars == <<environ, clock, ticks, arrived, cache, writer, lastStore, pc, rid, now, held,
          articles, results, calls, seen, tstore, resp>>

locals == <<articles, results>>
history == <<writer, lastStore>>
world == <<environ, clock, ticks>>

NoResp == [status |-> 0, body |-> <<>>]
NotSeen == [checked |-> FALSE, hit |-> FALSE, timestamp |-> 0, data |-> None,
            tsBy |-> 0, dataBy |-> 0, stored |-> FALSE, storeTime |-> 0]

\* lines 14-17 and a server with every thread idle
Init ==
  /\ environ \in {[GEMINI_API_KEY |-> k] : k \in {None, Some("key")}}
  /\ clock = StartTime
  /\ ticks = 0
  /\ arrived = 0
  /\ cache = [timestamp |-> 0, data |-> None]
  /\ writer = [timestamp |-> 0, data |-> 0]
  /\ lastStore = [done |-> FALSE, by |-> 0, time |-> 0, data |-> <<>>]
  /\ pc = [t \in Threads |-> "idle"]
  /\ rid = [t \in Threads |-> 0]
  /\ now = [t \in Threads |-> 0]
  /\ held = [t \in Threads |-> <<>>]
  /\ articles = [t \in Threads |-> <<>>]
  /\ results = [t \in Threads |-> <<>>]
  /\ calls = [t \in Threads |-> <<>>]
  /\ seen = [t \in Threads |-> NotSeen]
  /\ tstore = [t \in Threads |-> 0]
  /\ resp = [t \in Threads |-> NoResp]

\* ------------------------------------------------------------ get_summaries
\* line 102: the freshness test on the cache dict c at local time n
IsFresh(c, n) == c.data # None /\ n - c.timestamp < CACHE_TTL

\* line 103: _summaries_cache["data"], known not to be None
CachedData(c) == c.data[1]

\* line 110: jsonify({"message": "No articles found."}), 404
NotFoundResponse == [status |-> 404, body |-> [message |-> "No articles found."]]

\* an exception that leaves get_summaries: Flask answers 500
ServerErrorResponse == [status |-> 500, body |-> <<>>]

\* line 140: jsonify(results)
OkResponse(list) == [status |-> 200, body |-> list]

\* faulty variant of line 109: articles is None
NoArticlesNoneOnly(v) == v = None

\* line 109: not articles
NoArticles(v) == v = None \/ v = Some(<<>>)

\* faulty variant of lines 113-120: error defaults to 'N/A' like the metadata fields
summary_dataErrorNA(article) ==
  [title     |-> Get(article, "title", Some("N/A")),
   source    |-> Get(article, "source", Some("N/A")),
   url       |-> Get(article, "url", Some("N/A")),
   published |-> Get(article, "published_at", Some("N/A")),
   summary   |-> None,
   error     |-> Some("N/A")]

\* lines 113-120
summary_data(article) ==
  [title     |-> Get(article, "title", Some("N/A")),
   source    |-> Get(article, "source", Some("N/A")),
   url       |-> Get(article, "url", Some("N/A")),
   published |-> Get(article, "published_at", Some("N/A")),
   summary   |-> None,
   error     |-> None]

\* line 128
WithSummary(rec, s) == [rec EXCEPT !.summary = Some(s)]

\* lines 130, 132, 134
WithError(rec, msg) == [rec EXCEPT !.error = Some(msg)]

\* faulty variant of line 125: the test on content left out
HasContentAlways(c) == TRUE

\* line 125: if content
HasContent(c) == c # <<>>

\* line 127: if summary
HasSummary(s) == s # <<>>

\* line 138: time.time()
StoreTime(t) == clock

\* line 122: article.get('url'), and line 123: if url
ArticleUrl(article) == Get(article, "url", None)

\* faulty variant of line 123: url is not None
HasUrlNotNone(article) == ArticleUrl(article) # None

HasUrl(article) == Truthy(ArticleUrl(article))

\* the index of the article the loop of line 112 is at
Index(t) == Len(results[t]) + 1
InLoop(t) == pc[t] = "loop" /\ Index(t) <= Len(articles[t])

\* one outbound call: the wrapper, the index of the article it is for (0 for
\* fetch_news) and what the wrapper returned
Call(op, i, ret) == [op |-> op, idx |-> i, ret |-> ret]

\* lines 99-101: a request reaches an idle thread, which reads the time
Arrive(t) ==
  /\ pc[t] \in {"idle", "done"}
  /\ arrived < MaxRequests
  /\ arrived' = arrived + 1
  /\ rid' = [rid EXCEPT ![t] = arrived + 1]
  /\ now' = [now EXCEPT ![t] = clock]
  /\ pc' = [pc EXCEPT ![t] = "check"]
  /\ articles' = [articles EXCEPT ![t] = <<>>]
  /\ results' = [results EXCEPT ![t] = <<>>]
  /\ calls' = [calls EXCEPT ![t] = <<>>]
  /\ seen' = [seen EXCEPT ![t] = NotSeen]
  /\ held' = [held EXCEPT ![t] = <<>>]
  /\ tstore' = [tstore EXCEPT ![t] = 0]
  /\ resp' = [resp EXCEPT ![t] = NoResp]
  /\ UNCHANGED <<world, cache, history>>

\* line 102: the freshness test
CheckCache(t) ==
  /\ pc[t] = "check"
  /\ seen' = [seen EXCEPT ![t] =
                [checked |-> TRUE, hit |-> IsFresh(cache, now[t]),
                 timestamp |-> cache.timestamp, data |-> cache.data,
                 tsBy |-> writer.timestamp, dataBy |-> writer.data,
                 stored |-> lastStore.done, storeTime |-> lastStore.time]]
  /\ pc' = [pc EXCEPT ![t] = IF IsFresh(cache, now[t]) THEN "hit" ELSE "construct"]
  /\ UNCHANGED <<world, arrived, cache, history, rid, now, locals, calls, tstore,
                 resp, held>>

\* line 103: the data field is read again, as the argument of jsonify
ReadCached(t) ==
  /\ pc[t] = "hit"
  /\ held' = [held EXCEPT ![t] = CachedData(cache)]
  /\ pc' = [pc EXCEPT ![t] = "reply"]
  /\ UNCHANGED <<world, arrived, cache, history, rid, now, locals, calls, seen,
                 tstore, resp>>

\* line 103: jsonify returns and the handler answers with the list it read
ReturnCached(t) ==
  /\ pc[t] = "reply"
  /\ resp' = [resp EXCEPT ![t] = OkResponse(held[t])]
  /\ pc' = [pc EXCEPT ![t] = "done"]
  /\ UNCHANGED <<world, arrived, cache, history, rid, now, locals, calls, seen,
                 tstore, held>>

\* line 105: NewsSummarizer() builds the generative-text client
Construct(t) ==
  /\ pc[t] = "construct"
  /\ IF ClientRaises(environ.GEMINI_API_KEY)
     THEN /\ resp' = [resp EXCEPT ![t] = ServerErrorResponse]
          /\ pc' = [pc EXCEPT ![t] = "done"]
     ELSE /\ pc' = [pc EXCEPT ![t] = "fetch"]
          /\ UNCHANGED resp
  /\ UNCHANGED <<world, arrived, cache, history, rid, now, locals, calls, seen,
                 tstore, held>>

\* lines 106-110, with r the news API's answer
FetchNews(t, r) ==
  /\ pc[t] = "fetch"
  /\ calls' = [calls EXCEPT ![t] = Append(@, Call("fetch_news", 0, fetch_news(r)))]
  /\ LET out == fetch_news(r) IN
     IF out.raised
     THEN /\ resp' = [resp EXCEPT ![t] = ServerErrorResponse]
          /\ pc' = [pc EXCEPT ![t] = "done"]
          /\ UNCHANGED locals
     ELSE IF NoArticles(out.value)
     THEN /\ resp' = [resp EXCEPT ![t] = NotFoundResponse]
          /\ pc' = [pc EXCEPT ![t] = "done"]
          /\ UNCHANGED locals
     ELSE /\ articles' = [articles EXCEPT ![t] = out.value[1]]
          /\ results' = [results EXCEPT ![t] = <<>>]
          /\ pc' = [pc EXCEPT ![t] = "loop"]
          /\ UNCHANGED resp
  /\ UNCHANGED <<world, arrived, cache, history, rid, now, seen, tstore, held>>

\* lines 112-114: the item is no dict and article.get raises AttributeError
RaiseOnItem(t) ==
  /\ InLoop(t)
  /\ ~IsDict(articles[t][Index(t)])
  /\ resp' = [resp EXCEPT ![t] = ServerErrorResponse]
  /\ pc' = [pc EXCEPT ![t] = "done"]
  /\ UNCHANGED <<world, arrived, cache, history, rid, now, locals, calls, seen,
                 tstore, held>>

\* lines 112-123, 133-136: an article without URL
SkipArticle(t) ==
  /\ InLoop(t)
  /\ IsDict(articles[t][Index(t)])
  /\ ~HasUrl(articles[t][Index(t)])
  /\ results' = [results EXCEPT ![t] =
        Append(@, WithError(summary_data(articles[t][Index(t)]),
                            "No URL available for article."))]
  /\ UNCHANGED <<world, arrived, cache, history, pc, rid, now, articles, calls,
                 seen, tstore, resp, held>>

\* lines 112-125, 131-132, 136: the article page answers with page
ExtractContent(t, page) ==
  /\ InLoop(t)
  /\ IsDict(articles[t][Index(t)])
  /\ HasUrl(articles[t][Index(t)])
  /\ LET c == extract_content(page) IN
     /\ calls' = [calls EXCEPT ![t] = Append(@, Call("extract_content", Index(t), c))]
     /\ IF HasContent(c)
        THEN /\ pc' = [pc EXCEPT ![t] = "summarize"]
             /\ UNCHANGED results
        ELSE /\ results' = [results EXCEPT ![t] =
                  Append(@, WithError(summary_data(articles[t][Index(t)]),
                                      "Could not extract article content."))]
             /\ UNCHANGED pc
  /\ UNCHANGED <<world, arrived, cache, history, rid, now, articles, seen, tstore,
                 resp, held>>

\* lines 126-130, 136: the generative-text API answers with reply
GenerateSummary(t, reply) ==
  /\ pc[t] = "summarize"
  /\ LET s == generate_summary(reply)
         rec == summary_data(articles[t][Index(t)]) IN
     /\ calls' = [calls EXCEPT ![t] = Append(@, Call("generate_summary", Index(t), s))]
     /\ results' = [results EXCEPT ![t] =
          Append(@, IF HasSummary(s) THEN WithSummary(rec, s)
                    ELSE WithError(rec, "Could not generate summary."))]
  /\ pc' = [pc EXCEPT ![t] = "loop"]
  /\ UNCHANGED <<world, arrived, cache, history, rid, now, articles, seen,
                 tstore, resp, held>>

\* line 138, after the loop has ended: the call time.time() returns; the
\* thread can be switched out before the value is stored
ReadClock(t) ==
  /\ pc[t] = "loop"
  /\ Index(t) > Len(articles[t])
  /\ tstore' = [tstore EXCEPT ![t] = StoreTime(t)]
  /\ pc' = [pc EXCEPT ![t] = "stamp"]
  /\ UNCHANGED <<world, arrived, cache, history, rid, now, locals, calls, seen,
                 resp, held>>

\* line 138: the value read is stored in _summaries_cache["timestamp"]
StoreTimestamp(t) ==
  /\ pc[t] = "stamp"
  /\ cache' = [cache EXCEPT !.timestamp = tstore[t]]
  /\ writer' = [writer EXCEPT !.timestamp = rid[t]]
  /\ pc' = [pc EXCEPT ![t] = "store"]
  /\ UNCHANGED <<world, arrived, lastStore, rid, now, locals, calls, seen,
                 tstore, resp, held>>

\* line 139
StoreData(t) ==
  /\ pc[t] = "store"
  /\ cache' = [cache EXCEPT !.data = Some(results[t])]
  /\ writer' = [writer EXCEPT !.data = rid[t]]
  /\ lastStore' = [done |-> TRUE, by |-> rid[t], time |-> tstore[t],
                   data |-> results[t]]
  /\ pc' = [pc EXCEPT ![t] = "respond"]
  /\ UNCHANGED <<world, arrived, rid, now, locals, calls, seen, tstore, resp,
                 held>>

\* line 140: jsonify returns and the handler answers with its results
ReturnResults(t) ==
  /\ pc[t] = "respond"
  /\ resp' = [resp EXCEPT ![t] = OkResponse(results[t])]
  /\ pc' = [pc EXCEPT ![t] = "done"]
  /\ UNCHANGED <<world, arrived, cache, history, rid, now, locals, calls, seen,
                 tstore, held>>

\* time passes
Tick(d) ==
  /\ ticks < MaxTicks
  /\ clock' = clock + d
  /\ ticks' = ticks + 1
  /\ UNCHANGED <<environ, arrived, cache, history, pc, rid, now, locals, calls,
                 seen, tstore, resp, held>>

\* ------------------------------------------------------------ environments
A_full == [title |-> Some("T1"), source |-> Some("S1"), url |-> Some("u1"),
           published_at |-> Some("P1")]
A_nokeys == [title |-> Some("T2")]
A_nullurl == [title |-> Some("T3"), source |-> None, url |-> None,
              published_at |-> None]
A_emptyurl == [title |-> Some("T4"), url |-> Some("")]

Pool == {A_full, A_nokeys, A_nullurl, A_emptyurl}
Items == Pool \cup {JsonNumber}
SmallFeeds == {<<A_full>>, <<A_nokeys, A_full>>, <<JsonNumber>>}

Feeds(pool, n) == UNION {[1..k -> pool] : k \in 1..n}

ApiResponse(kind, hasData, data) == [kind |-> kind, hasData |-> hasData, data |-> data]

Responses(feeds) ==
  {ApiResponse("RequestException", FALSE, None),
   ApiResponse("array", FALSE, None),
   ApiResponse("object", FALSE, None),
   ApiResponse("object", TRUE, None),
   ApiResponse("object", TRUE, Some(<<>>))}
  \cup {ApiResponse("object", TRUE, Some(f)) : f \in feeds}

Page(raised, text) == [raised |-> raised, text |-> text]
Pages ==
  {Page(TRUE, <<>>), Page(FALSE, <<>>), Page(FALSE, <<Space, Newline>>),
   Page(FALSE, <<Space, Tab, NoBreakSpace, CarriageReturn, Newline, Tab>>),
   Page(FALSE, <<Ch_a, CarriageReturn, Ch_b>>),
   Page(FALSE, <<Space, Ch_a, Space, Space, Space, Ch_b, Tab, CarriageReturn,
                 Newline, Newline, Ch_c, Space>>)}
SmallPages == {Page(TRUE, <<>>), Page(FALSE, <<Ch_a>>)}

Reply(raised, text) == [raised |-> raised, text |-> text]
Replies ==
  {Reply(TRUE, <<>>), Reply(FALSE, <<>>), Reply(FALSE, <<Space, Newline>>),
   Reply(FALSE, <<Tab, CarriageReturn, Newline, NoBreakSpace>>),
   Reply(FALSE, <<Ch_X>>), Reply(FALSE, <<Tab, Ch_Y, CarriageReturn, Newline>>)}
SmallReplies == {Reply(TRUE, <<>>), Reply(FALSE, <<Ch_X>>)}

Deltas == {1, FiveMinutes, CACHE_TTL - 1}

\* the server handling one request after the other, while time passes
Next ==
  \/ Arrive(1)
  \/ CheckCache(1)
  \/ ReadCached(1)
  \/ ReturnCached(1)
  \/ Construct(1)
  \/ \E r \in Responses(SmallFeeds) : FetchNews(1, r)
  \/ RaiseOnItem(1)
  \/ SkipArticle(1)
  \/ \E p \in SmallPages : ExtractContent(1, p)
  \/ \E y \in SmallReplies : GenerateSummary(1, y)
  \/ ReadClock(1)
  \/ StoreTimestamp(1)
  \/ StoreData(1)
  \/ ReturnResults(1)
  \/ \E d \in Deltas : Tick(d)

Spec == Init /\ [][Next]_vars

\* one aggregation pass after the other over the full environment, the clock
\* standing still
NextPipeline ==
  \/ Arrive(1)
  \/ CheckCache(1)
  \/ ReadCached(1)
  \/ ReturnCached(1)
  \/ Construct(1)
  \/ \E r \in Responses(Feeds(Items, MaxArticles)) : FetchNews(1, r)
  \/ RaiseOnItem(1)
  \/ SkipArticle(1)
  \/ \E p \in Pages : ExtractContent(1, p)
  \/ \E y \in Replies : GenerateSummary(1, y)
  \/ ReadClock(1)
  \/ StoreTimestamp(1)
  \/ StoreData(1)
  \/ ReturnResults(1)

SpecPipeline == Init /\ [][NextPipeline]_vars

\* the threaded server (app.run): the handlers of NumThreads requests
\* interleave between statements
NextThreads ==
  \/ \E t \in Threads : Arrive(t)
  \/ \E t \in Threads : CheckCache(t)
  \/ \E t \in Threads : ReadCached(t)
  \/ \E t \in Threads : ReturnCached(t)
  \/ \E t \in Threads : Construct(t)
  \/ \E t \in Threads, r \in Responses(SmallFeeds) : FetchNews(t, r)
  \/ \E t \in Threads : RaiseOnItem(t)
  \/ \E t \in Threads : SkipArticle(t)
  \/ \E t \in Threads, p \in SmallPages : ExtractContent(t, p)
  \/ \E t \in Threads, y \in SmallReplies : GenerateSummary(t, y)
  \/ \E t \in Threads : ReadClock(t)
  \/ \E t \in Threads : StoreTimestamp(t)
  \/ \E t \in Threads : StoreData(t)
  \/ \E t \in Threads : ReturnResults(t)
  \/ Tick(CACHE_TTL)

SpecThreads == Init /\ [][NextThreads]_vars

\* ------------------------------------------------------------------ claims
\* the cache states of the claims: STALE when nothing was stored or the last
\* successful store is TTL or more before time n, FRESH otherwise
Stale(stored, storeTime, n) == ~stored \/ n - storeTime >= CACHE_TTL
Fresh(stored, storeTime, n) == ~Stale(stored, storeTime, n)

Done(t) == pc[t] = "done"
Checked(t) == seen[t].checked
\* the request of thread t found the cache STALE: the slot it read held no
\* data, or a timestamp TTL or more before its now
FoundStale(t) ==
  Checked(t) /\ Stale(seen[t].data # None, seen[t].timestamp, now[t])

\* the calls of thread t's request to wrapper op for article i
CallsTo(t, op, i) == SelectSeq(calls[t], LAMBDA c : c.op = op /\ c.idx = i)
Count(t, op, i) == Len(CallsTo(t, op, i))

NoUrlMsg == "No URL available for article."
NoContentMsg == "Could not extract article content."
NoSummaryMsg == "Could not generate summary."

\* C1 as stated: a request that arrives less than TTL after the last
\* successful store makes no outbound call, leaves the cache as it was and
\* answers 200 with exactly the stored list, which is the list the storing
\* request answers with (line 140 returns what line 139 stored).  With two
\* handlers in line 138 the older clock value can be stored last, and the
\* entry of the later store is then taken for expired.
C1_FreshServedFromCache ==
  [][\A t \in Threads :
       /\ (pc[t] = "check" /\ pc'[t] # "check"
           /\ Fresh(lastStore.done, lastStore.time, now[t]))
          => /\ pc'[t] = "hit"
             /\ calls'[t] = <<>>
             /\ cache' = cache
       /\ (pc[t] = "hit" /\ pc'[t] # "hit")
          => /\ pc'[t] = "reply"
             /\ held'[t] = lastStore.data
             /\ calls'[t] = <<>>
             /\ cache' = cache
       /\ (pc[t] = "reply" /\ pc'[t] # "reply")
          => /\ pc'[t] = "done"
             /\ calls'[t] = <<>>
             /\ resp'[t] = OkResponse(held[t])
             /\ cache' = cache]_vars

\* C2 as stated: a request that finds the cache STALE (no data, or age >=
\* TTL) is not served from the cache: it calls the News Fetcher exactly once
\* and, for each article returned, the Content Extractor at most once and the
\* Summarizer at most once; it makes no other call.  When line 105 raises,
\* the request ends without a News Fetcher call.
C2_StaleCallCounts ==
  \A t \in Threads :
    FoundStale(t) =>
      /\ ~seen[t].hit
      /\ Count(t, "fetch_news", 0) <= 1
      /\ pc[t] \notin {"construct", "fetch"} => Count(t, "fetch_news", 0) = 1
      /\ \A k \in 1..Len(calls[t]) :
           \/ calls[t][k].op = "fetch_news" /\ k = 1
           \/ /\ calls[t][k].op \in {"extract_content", "generate_summary"}
              /\ calls[t][k].idx \in 1..Len(articles[t])
      /\ \A i \in 1..Len(articles[t]) :
           /\ Count(t, "extract_content", i) <= 1
           /\ Count(t, "generate_summary", i) <= 1

\* C3: when the News Fetcher returns no articles to a request that found the
\* cache STALE, the response is 404 "No articles found." and the cache keeps
\* its timestamp and its data.
C3_EmptyFetchKeepsCache ==
  [][\A t \in Threads :
       (pc[t] = "fetch" /\ pc'[t] # "fetch"
        /\ ~calls'[t][1].ret.raised
        /\ calls'[t][1].ret.value \in {None, Some(<<>>)})
       => /\ FoundStale(t)
          /\ pc'[t] = "done"
          /\ resp'[t].status = 404
          /\ resp'[t].body = [message |-> "No articles found."]
          /\ cache' = cache]_vars

\* a 404 was given while the cache held an earlier, now stale, list
C3_Witness ==
  \E t \in Threads :
    /\ Done(t) /\ resp[t].status = 404
    /\ seen[t].data # None /\ cache.data = seen[t].data
    /\ cache.timestamp = seen[t].timestamp

\* C4: every record of every 200 response has exactly one of summary and
\* error non-null.
C4_ExactlyOneOfSummaryError ==
  \A t \in Threads :
    resp[t].status = 200 =>
      \A i \in 1..Len(resp[t].body) :
        (resp[t].body[i].summary # None) # (resp[t].body[i].error # None)

\* a response served from the cache holds a summary record and an error record
C4_Witness ==
  \E t \in Threads :
    /\ Done(t) /\ seen[t].hit /\ resp[t].status = 200
    /\ Len(resp[t].body) = 2
    /\ resp[t].body[1].summary # None
    /\ resp[t].body[2].error # None

\* the record the aggregation contract gives for an article, given what the
\* extractor and the summarizer returned for it (<<>> when not called)
C5_Expected(article, extracted, summarized) ==
  LET field(k) == IF k \in DOMAIN article THEN article[k] ELSE Some("N/A")
      url == IF "url" \in DOMAIN article THEN article["url"] ELSE None
      outcome ==
        IF url = None \/ url = Some("") THEN <<None, Some(NoUrlMsg)>>
        ELSE IF extracted = <<>> THEN <<None, Some(NoContentMsg)>>
        ELSE IF summarized = <<>> THEN <<None, Some(NoSummaryMsg)>>
        ELSE <<Some(summarized), None>>
  IN [title |-> field("title"), source |-> field("source"), url |-> field("url"),
      published |-> field("published_at"),
      summary |-> outcome[1], error |-> outcome[2]]

C5_Returned(t, op, i) ==
  IF Count(t, op, i) = 0 THEN <<>> ELSE CallsTo(t, op, i)[1].ret

\* the fetched list is a non-empty list of Articles (JSON objects)
ArticleList(list) ==
  list # <<>> /\ \A i \in 1..Len(list) : IsDict(list[i])

\* C5: the records computed so far are, in order, the expected records of the
\* first articles, each from its own article and its own outcomes; a miss
\* over a non-empty list of Articles ends in a 200 response with one such
\* record per article, and no 200 response of a miss has anything else.
C5_OneRecordPerArticle ==
  \A t \in Threads :
    /\ Len(results[t]) <= Len(articles[t])
    /\ \A i \in 1..Len(results[t]) :
         results[t][i] = C5_Expected(articles[t][i],
                                     C5_Returned(t, "extract_content", i),
                                     C5_Returned(t, "generate_summary", i))
    /\ (Done(t) /\ ~seen[t].hit /\ ArticleList(articles[t])) =>
         resp[t].status = 200
    /\ (Done(t) /\ resp[t].status = 200 /\ ~seen[t].hit) =>
         /\ Len(articles[t]) > 0
         /\ Len(resp[t].body) = Len(articles[t])
         /\ resp[t].body = results[t]

\* the first article's extraction failed and the second was still summarized
C5_Witness ==
  \E t \in Threads :
    /\ Done(t) /\ resp[t].status = 200 /\ ~seen[t].hit
    /\ Len(resp[t].body) = 2
    /\ resp[t].body[1].error = Some(NoContentMsg)
    /\ resp[t].body[2].summary = Some(<<Ch_Y>>)
    /\ resp[t].body[2].error = None

\* C6: the extractor is called for an article only if the article has a URL,
\* and the summarizer only after the extractor returned non-empty text for
\* that article.
C6_CallsOnlyWhenNeeded ==
  \A t \in Threads :
    \A k \in 1..Len(calls[t]) :
      LET c == calls[t][k] IN
      /\ c.op = "extract_content" =>
           /\ "url" \in DOMAIN articles[t][c.idx]
           /\ articles[t][c.idx]["url"] \notin {None, Some("")}
      /\ c.op = "generate_summary" =>
           \E j \in 1..(k - 1) :
             /\ calls[t][j].op = "extract_content"
             /\ calls[t][j].idx = c.idx
             /\ calls[t][j].ret # <<>>

\* a pass over an article without URL and an article whose page gave no text
\* made the fetch and one extractor call, nothing else
C6_Witness ==
  \E t \in Threads :
    /\ Done(t) /\ resp[t].status = 200 /\ ~seen[t].hit
    /\ Len(articles[t]) = 2
    /\ resp[t].body[1].error = Some(NoUrlMsg)
    /\ resp[t].body[2].error = Some(NoContentMsg)
    /\ Len(calls[t]) = 2
    /\ calls[t][2].op = "extract_content" /\ calls[t][2].idx = 2

\* C7 as stated: a request that found the cache STALE and fetched a
\* non-empty list of Articles ends by the store and in no other way; the
\* store puts its whole list, whatever its records are, beside the time its
\* own line 138 read, and answers 200 with that list; the cache it leaves is
\* FRESH for every time less than TTL after that time, and the next request,
\* when it arrives in that time, is served that list from the cache.  With
\* two handlers in line 138 the timestamp beside the list can be the older
\* value of the other handler.
C7_StoreThenFresh ==
  [][\A t \in Threads :
       /\ (pc[t] # "done" /\ pc'[t] = "done" /\ ArticleList(articles[t])) =>
            FoundStale(t) /\ pc[t] = "respond"
       /\ pc'[t] = "respond" => pc[t] \in {"store", "respond"}
       /\ (pc[t] = "store" /\ pc'[t] # "store") =>
            /\ Len(results[t]) = Len(articles[t]) /\ Len(articles[t]) > 0
            /\ cache'.data = Some(results[t])
            /\ cache'.timestamp = tstore[t]
            /\ \A n \in {tstore[t], tstore[t] + CACHE_TTL - 1} :
                 cache'.data # None /\ n - cache'.timestamp < CACHE_TTL
       /\ (pc[t] = "respond" /\ pc'[t] # "respond") =>
            resp'[t] = OkResponse(results[t]) /\ results'[t] = results[t]
       /\ (pc[t] = "check" /\ pc'[t] # "check" /\ lastStore.done
           /\ rid[t] = lastStore.by + 1
           /\ now[t] - lastStore.time < CACHE_TTL) =>
            pc'[t] = "hit" /\ calls'[t] = <<>>
       /\ (pc[t] = "hit" /\ pc'[t] # "hit") =>
            held'[t] = lastStore.data /\ calls'[t] = <<>>
       /\ (pc[t] = "reply" /\ pc'[t] # "reply") =>
            resp'[t] = OkResponse(held[t])]_vars

\* C8 as stated: every freshness check sees a timestamp and a data list
\* written by the same store, and data is only ever replaced by the complete
\* list of a finished pass.  Lines 138 and 139 are two statements, and a
\* check between them sees the new timestamp with the previous data.
C8_NoTornCacheRead ==
  \A t \in Threads :
    /\ Checked(t) => seen[t].tsBy = seen[t].dataBy
    /\ pc[t] = "store" => Len(results[t]) = Len(articles[t])

\* C9 as stated: every request ends in a 200 or a 404.  Without a
\* generative-text API key line 105 raises ValueError; a news-API body that
\* is JSON but no object makes fetch_news raise AttributeError, which its
\* except clause does not catch; a 'data' item that is no object makes line
\* 114 raise AttributeError.
C9_OnlyOkOrNotFound ==
  \A t \in Threads : Done(t) => resp[t].status \in {200, 404}

\* C10 as stated: a request that finds stored data of age 300 s or more is
\* not served from the cache.  CACHE_TTL is 40000.
C10_FiveMinuteTtl ==
  \A t \in Threads :
    (Checked(t) /\ seen[t].data # None
     /\ now[t] - seen[t].timestamp >= FiveMinutes) => ~seen[t].hit

====
